---- MODULE Spec2Model ----
\* A model of dashboard.py: the ranking loader, the reference and price
\* fetchers, the merge, the sidebar defaults and the screener filter, run as
\* a Streamlit script that is executed top to bottom and may be run again.
EXTENDS Integers, Sequences, FiniteSets, TLC

VARIABLES
    disk,              \* the ranking file as it lies on disk (raw cells)
    service,           \* the behaviours the lookup service shows in this session
    touched,           \* the user has moved the sidebar widgets
    loadCache,         \* st.cache_data store of load_data
    detailCache,       \* st.cache_data store of get_detailed_data
    priceCache,        \* st.cache_data store of get_price_history
    reads,             \* outcome of each pd.read_csv invocation, in order
    batches,           \* ticker lists whose lookups were issued, in order
    priceLookups,      \* tickers whose price lookup was issued, in order
    computed,          \* first value each cached function computed, per key
    run,               \* number of the current script run
    pc,                \* position of the script
    crashed,           \* exception that ended the current run ("" for none)
    notice,            \* st.error / st.warning shown by the current run
    base_df,
    top_tickers,
    i,                 \* loop index of get_detailed_data
    detailed_data,
    outcomes,          \* what each lookup of the current batch did
    detailed_df,
    df,
    score_range,
    selected_sectors,
    filtered_df,
    stock,             \* ticker of stock_details
    priceOutcome,      \* what the price lookup did
    price_history

vars == <<disk, service, touched, loadCache, detailCache, priceCache, reads,
          batches, priceLookups, computed, run, pc, crashed, notice, base_df,
          top_tickers, i, detailed_data, outcomes, detailed_df, df,
          score_range, selected_sectors, filtered_df, stock, priceOutcome,
          price_history>>

-----------------------------------------------------------------------------
\* Bounds of the model.

NRows == 3          \* rows of the ranking file: 0..NRows
MaxRuns == 2        \* script runs in one session

\* Program constants.
TopN == 100         \* base_df.head(100)

\* Missing values: pandas' NaN of a numeric column, None of an object column.
NaN == -1
None == "None"

Path == "TSE_all_comprehensive_ranking_2025-07.csv"

\* The identifiers a ranking file may list, in ranking order, and what the
\* ranking file and the provider hold for each of them.
AllTickers == <<"A", "B", "C", "D", "E">>
Idx(t) == CHOOSE k \in 1..Len(AllTickers) : AllTickers[k] = t
ScoreOf(t) == <<5, 8, 2, 5, 8>>[Idx(t)]
StaleName(t) == "old_" \o t
StaleSector == "stale_sector"
LiveName(t) == "live_" \o t
LiveSector(t) == IF Idx(t) % 2 = 1 THEN "Tech" ELSE "Finance"
LiveCap(t) == 100 * Idx(t)

NumericCols == {"overall", "cap", "Close"}
Missing(c) == IF c \in NumericCols THEN NaN ELSE None
IsNA(c, v) == v = Missing(c)

Min(a, b) == IF a <= b THEN a ELSE b
Range(s) == {s[k] : k \in DOMAIN s}

\* Python values: None, or a DataFrame with its columns and rows. A row
\* is a function from column name to cell.
PyNone == [none |-> TRUE, cols |-> {}, rows |-> <<>>]
DataFrame(cols, rows) == [none |-> FALSE, cols |-> cols, rows |-> rows]
Empty(d) == Len(d.rows) = 0
Column(d, c) == [k \in DOMAIN d.rows |-> d.rows[k][c]]

-----------------------------------------------------------------------------
\* The ranking file.

Cell(v) == [num |-> TRUE, v |-> v]
TextCell == [num |-> FALSE, v |-> 0]

FileCols(hasName, hasSector, hasOverall) ==
    {"ticker"} \cup (IF hasName THEN {"name"} ELSE {})
               \cup (IF hasSector THEN {"sector"} ELSE {})
               \cup (IF hasOverall THEN {"overall"} ELSE {})

FileRow(t, cols, numeric) ==
    [c \in cols |->
        CASE c = "ticker" -> t
          [] c = "name" -> StaleName(t)
          [] c = "sector" -> StaleSector
          [] c = "overall" -> IF numeric THEN Cell(ScoreOf(t)) ELSE TextCell]

Files ==
    {DataFrame(FileCols(hn, hs, TRUE),
               [k \in 1..n |-> FileRow(AllTickers[k], FileCols(hn, hs, TRUE), num[k])]) :
        <<n, hn, hs, num>> \in
            {<<n, hn, hs, num>> \in (0..NRows) \X BOOLEAN \X BOOLEAN \X [1..NRows -> BOOLEAN] :
                \A k \in 1..NRows : k > n => num[k]}}
    \cup
    {DataFrame(FileCols(hn, hs, FALSE),
               [k \in 1..n |-> FileRow(AllTickers[k], FileCols(hn, hs, FALSE), TRUE)]) :
        <<n, hn, hs>> \in (0..NRows) \X BOOLEAN \X BOOLEAN}

\* The file of the worked scenario: A, B, C with overall scores 5, 8, 2 and
\* a stale name column.
ScenarioFile ==
    DataFrame(FileCols(TRUE, FALSE, TRUE),
              [k \in 1..3 |-> FileRow(AllTickers[k], FileCols(TRUE, FALSE, TRUE), TRUE)])

-----------------------------------------------------------------------------
\* st.cache_data: a store of (arguments, returned value) pairs that is never
\* emptied. A call whose body raises stores nothing.

CacheHit(cache, key) == \E e \in cache : e.key = key
CacheGet(cache, key) == (CHOOSE e \in cache : e.key = key).val
\* Faulty variant: a store that keeps nothing.
CacheDropPut(cache, key, val) == cache
CachePut(cache, key, val) == cache \cup {[key |-> key, val |-> val]}

\* The first value computed for a key (history, not read by the program).
Remember(log, key, val) ==
    IF CacheHit(log, key) THEN log ELSE log \cup {[key |-> key, val |-> val]}

-----------------------------------------------------------------------------
\* load_data

ReadOutcomes == {"ok", "FileNotFoundError", "ParserError"}

\* pd.to_numeric(errors='coerce') on one cell.
ToNumeric(cell) == IF cell.num THEN cell.v ELSE NaN

ScoreCols == {"overall"}

CoerceScores(d) ==
    DataFrame(d.cols,
              [k \in DOMAIN d.rows |->
                  [c \in d.cols |-> IF c \in ScoreCols
                                    THEN ToNumeric(d.rows[k][c])
                                    ELSE d.rows[k][c]]])

\* The body of load_data for a read that did not raise past the handler.
\* Faulty variant: an empty frame instead of None for a missing file.
LoadDataBodyEmptyFrame(outcome) ==
    IF outcome = "ok" THEN CoerceScores(disk) ELSE DataFrame({}, <<>>)
LoadDataBody(outcome) ==
    IF outcome = "ok" THEN CoerceScores(disk) ELSE PyNone

HeadRows(d, n) == DataFrame(d.cols, SubSeq(d.rows, 1, Min(n, Len(d.rows))))

ResetLocals ==
    /\ base_df' = PyNone
    /\ top_tickers' = <<>>
    /\ i' = 0
    /\ detailed_data' = <<>>
    /\ outcomes' = <<>>
    /\ detailed_df' = PyNone
    /\ df' = PyNone
    /\ score_range' = <<NaN, NaN>>
    /\ selected_sectors' = {}
    /\ filtered_df' = PyNone
    /\ stock' = None
    /\ priceOutcome' = ""
    /\ price_history' = PyNone

\* Lines 58-62: base_df = load_data(path); if it is not None, take the top
\* rows and their tickers.
LoadData ==
    /\ pc = "load"
    /\ IF CacheHit(loadCache, Path)
       THEN /\ base_df' = CacheGet(loadCache, Path)
            /\ UNCHANGED <<loadCache, reads, computed, crashed>>
            /\ notice' = IF base_df'.none THEN "not_found" ELSE ""
            /\ pc' = IF base_df'.none THEN "done" ELSE "fetch"
       ELSE \E outcome \in ReadOutcomes :
            /\ reads' = Append(reads, outcome)
            /\ IF outcome = "ParserError"
               THEN /\ crashed' = "ParserError"
                    /\ pc' = "done"
                    /\ UNCHANGED <<loadCache, computed, base_df, notice>>
               ELSE /\ base_df' = LoadDataBody(outcome)
                    /\ loadCache' = CachePut(loadCache, Path, base_df')
                    /\ computed' = [computed EXCEPT !.load = Remember(@, Path, base_df')]
                    /\ notice' = IF outcome = "ok" THEN "" ELSE "not_found"
                    /\ pc' = IF base_df'.none THEN "done" ELSE "fetch"
                    /\ UNCHANGED crashed
    /\ top_tickers' = IF pc' = "fetch"
                      THEN Column(HeadRows(base_df', TopN), "ticker")
                      ELSE <<>>
    /\ UNCHANGED <<disk, service, touched, detailCache, priceCache, batches,
                   priceLookups, run, i, detailed_data, outcomes, detailed_df,
                   df, score_range, selected_sectors, filtered_df, stock,
                   priceOutcome, price_history>>

-----------------------------------------------------------------------------
\* get_detailed_data

LookupOutcomes == {"fail", "full", "no_name", "no_sector", "no_cap"}

DetailCols == {"ticker", "name", "sector", "cap"}

\* The dict appended for one ticker whose lookup did not raise: info.get(key)
\* is None for a key the provider left out.
DetailRecord(t, o) ==
    [c \in DetailCols |->
        CASE c = "ticker" -> t
          [] c = "name" -> IF o = "no_name" THEN None ELSE LiveName(t)
          [] c = "sector" -> IF o = "no_sector" THEN None ELSE LiveSector(t)
          [] c = "cap" -> IF o = "no_cap" THEN NaN ELSE LiveCap(t)]

\* One pass of the loop body: try / append / except Exception: continue.
\* Faulty variant: a failing lookup throws away the batch.
AbortOnFailure(data, t, o) ==
    IF o = "fail" THEN <<>> ELSE Append(data, DetailRecord(t, o))
AfterLookup(data, t, o) ==
    IF o = "fail" THEN data ELSE Append(data, DetailRecord(t, o))

\* pd.DataFrame(detailed_data): a list of dicts gives their keys as columns,
\* an empty list gives a frame with no columns at all.
FrameOfRecords(data) ==
    IF Len(data) = 0 THEN DataFrame({}, <<>>) ELSE DataFrame(DetailCols, data)

\* Line 64, the call: a cache hit returns the stored frame, a miss enters
\* the body.
FetchBegin ==
    /\ pc = "fetch"
    /\ IF CacheHit(detailCache, top_tickers)
       THEN /\ detailed_df' = CacheGet(detailCache, top_tickers)
            /\ pc' = "merge"
            /\ UNCHANGED <<batches, i, detailed_data, outcomes>>
       ELSE /\ batches' = Append(batches, top_tickers)
            /\ i' = 1
            /\ detailed_data' = <<>>
            /\ outcomes' = <<>>
            /\ pc' = "lookup"
            /\ UNCHANGED detailed_df
    /\ UNCHANGED <<disk, service, touched, loadCache, detailCache, priceCache,
                   reads, priceLookups, computed, run, crashed, notice,
                   base_df, top_tickers, df, score_range, selected_sectors,
                   filtered_df, stock, priceOutcome, price_history>>

\* Lines 29-41: one iteration of the loop.
Lookup ==
    /\ pc = "lookup"
    /\ i <= Len(top_tickers)
    /\ \E o \in service :
        /\ outcomes' = Append(outcomes, o)
        /\ detailed_data' = AfterLookup(detailed_data, top_tickers[i], o)
    /\ i' = i + 1
    /\ UNCHANGED <<disk, service, touched, loadCache, detailCache, priceCache,
                   reads, batches, priceLookups, computed, run, pc, crashed,
                   notice, base_df, top_tickers, detailed_df, df, score_range,
                   selected_sectors, filtered_df, stock, priceOutcome,
                   price_history>>

\* Lines 42-43: the loop is over, the frame is built, stored and returned.
FetchEnd ==
    /\ pc = "lookup"
    /\ i > Len(top_tickers)
    /\ detailed_df' = FrameOfRecords(detailed_data)
    /\ detailCache' = CachePut(detailCache, top_tickers, detailed_df')
    /\ computed' = [computed EXCEPT !.detail = Remember(@, top_tickers, detailed_df')]
    /\ pc' = "merge"
    /\ UNCHANGED <<disk, service, touched, loadCache, priceCache, reads,
                   batches, priceLookups, run, crashed, notice, base_df,
                   top_tickers, i, detailed_data, outcomes, df, score_range,
                   selected_sectors, filtered_df, stock, priceOutcome,
                   price_history>>

-----------------------------------------------------------------------------
\* The merge, lines 68-75.

\* DataFrame.drop(columns=[c], errors='ignore')
Drop(d, c) ==
    DataFrame(d.cols \ {c},
              [k \in DOMAIN d.rows |-> [x \in d.cols \ {c} |-> d.rows[k][x]]])

\* pd.merge(l, r, on='ticker', how='left'), for r keyed uniquely: a column in
\* both frames other than the key comes out twice, as c_x (left) and c_y
\* (right); a left row without a match gets missing values.
MergeCols(l, r) ==
    LET overlap == (l.cols \cap r.cols) \ {"ticker"}
    IN  (l.cols \ overlap) \cup (r.cols \ overlap)
            \cup {c \o "_x" : c \in overlap} \cup {c \o "_y" : c \in overlap}

RightCell(r, lrow, c, name) ==
    LET match == {k \in DOMAIN r.rows : r.rows[k]["ticker"] = lrow["ticker"]}
    IN  IF match = {} THEN Missing(name)
        ELSE r.rows[CHOOSE k \in match : \A j \in match : k <= j][c]

\* Faulty variant: a column in both frames keeps the left value.
MergeLeftKeepLeft(l, r) ==
    DataFrame(l.cols \cup r.cols,
              [k \in DOMAIN l.rows |->
                  [c \in l.cols \cup r.cols |->
                      IF c \in l.cols THEN l.rows[k][c]
                      ELSE RightCell(r, l.rows[k], c, c)]])

MergeLeft(l, r) ==
    LET overlap == (l.cols \cap r.cols) \ {"ticker"}
        Cell2(lrow, c) ==
            IF c \in l.cols \ overlap THEN lrow[c]
            ELSE IF c \in r.cols \ overlap THEN RightCell(r, lrow, c, c)
            ELSE LET o == CHOOSE x \in overlap : c = x \o "_x" \/ c = x \o "_y"
                 IN  IF c = o \o "_x" THEN lrow[o] ELSE RightCell(r, lrow, o, c)
    IN  DataFrame(MergeCols(l, r),
                  [k \in DOMAIN l.rows |-> [c \in MergeCols(l, r) |-> Cell2(l.rows[k], c)]])

\* df.dropna(subset=...)
DropNA(d, subset) ==
    DataFrame(d.cols,
              SelectSeq(d.rows, LAMBDA row : \A c \in subset : ~IsNA(c, row[c])))

\* Faulty variant: market cap not required.
EssentialWithoutCap == {"sector", "name"}
Essential == {"sector", "cap", "name"}

\* Lines 68-75 as a function of the two frames: the exception raised, if
\* any, and the frame df.
Reconcile(top_100_df, detailed) ==
    LET base_scores_df == Drop(top_100_df, "name")
    IN  IF "ticker" \notin base_scores_df.cols \/ "ticker" \notin detailed.cols
        THEN [err |-> "KeyError", df |-> PyNone]
        ELSE LET merged == MergeLeft(base_scores_df, detailed)
             IN  IF ~(Essential \subseteq merged.cols)
                 THEN [err |-> "KeyError", df |-> PyNone]
                 ELSE [err |-> "", df |-> DropNA(merged, Essential)]

\* Lines 68-83 and 154-155.
Merge ==
    /\ pc = "merge"
    /\ LET res == Reconcile(HeadRows(base_df, TopN), detailed_df)
       IN  IF res.err # ""
           THEN /\ crashed' = res.err
                /\ pc' = "done"
                /\ UNCHANGED <<df, notice>>
           ELSE /\ df' = res.df
                /\ notice' = IF Empty(res.df) THEN "empty_frame" ELSE ""
                /\ pc' = IF Empty(res.df) THEN "done" ELSE "sidebar"
                /\ UNCHANGED crashed
    /\ UNCHANGED <<disk, service, touched, loadCache, detailCache, priceCache,
                   reads, batches, priceLookups, computed, run, base_df,
                   top_tickers, i, detailed_data, outcomes, detailed_df,
                   score_range, selected_sectors, filtered_df, stock,
                   priceOutcome, price_history>>

-----------------------------------------------------------------------------
\* The sidebar, lines 83-91.

\* Slider positions are kept in half points, so that the midpoint of two
\* integer scores is exact.
Halves(v) == 2 * v

Present(s) == {k \in DOMAIN s : s[k] # NaN}

\* The k-th smallest of the values of s that are not NaN.
Kth(s, k) ==
    CHOOSE v \in {s[j] : j \in Present(s)} :
        /\ Cardinality({j \in Present(s) : s[j] < v}) < k
        /\ Cardinality({j \in Present(s) : s[j] <= v}) >= k

\* Series.min() and Series.max(): NaN is skipped, an all-NaN column gives NaN.
ColMin(s) == IF Present(s) = {} THEN NaN ELSE Kth(s, 1)
ColMax(s) == IF Present(s) = {} THEN NaN ELSE Kth(s, Cardinality(Present(s)))

\* Series.quantile(0.5), in half points: linear interpolation at position
\* (n - 1) / 2 of the sorted values that are not NaN.
\* Faulty variant: the lower middle value, no interpolation.
LowerQuantileHalves(s) ==
    LET n == Cardinality(Present(s))
    IN  IF n = 0 THEN NaN ELSE Halves(Kth(s, ((n - 1) \div 2) + 1))
QuantileHalves(s) ==
    LET n == Cardinality(Present(s))
        lo == Kth(s, ((n - 1) \div 2) + 1)
        hi == Kth(s, (n \div 2) + 1)
    IN  IF n = 0 THEN NaN
        ELSE Halves(lo) + (hi - lo) * ((n - 1) % 2)

\* The slider's value= argument and the multiselect's default= argument.
\* Faulty variant: the two ends exchanged.
SwappedRange(d) ==
    <<Halves(ColMax(Column(d, "overall"))), QuantileHalves(Column(d, "overall"))>>
DefaultRange(d) ==
    <<QuantileHalves(Column(d, "overall")), Halves(ColMax(Column(d, "overall")))>>
AllSectors(d) == Range(Column(d, "sector"))

\* The positions the slider can be dragged to: lo <= hi between the column's
\* minimum and maximum.
SliderRanges(d) ==
    LET lo == Halves(ColMin(Column(d, "overall")))
        hi == Halves(ColMax(Column(d, "overall")))
    IN  {r \in (lo..hi) \X (lo..hi) : r[1] <= r[2]}

Sidebar ==
    /\ pc = "sidebar"
    /\ IF "overall" \notin df.cols
       THEN /\ crashed' = "KeyError"
            /\ pc' = "done"
            /\ UNCHANGED <<score_range, selected_sectors>>
       ELSE IF Present(Column(df, "overall")) = {}
       THEN \* float('nan') bounds: the slider rejects them or hands them back
            \/ /\ crashed' = "StreamlitAPIException"
               /\ pc' = "done"
               /\ UNCHANGED <<score_range, selected_sectors>>
            \/ /\ score_range' = <<NaN, NaN>>
               /\ selected_sectors' \in
                     IF touched THEN SUBSET AllSectors(df) ELSE {AllSectors(df)}
               /\ pc' = "filter"
               /\ UNCHANGED crashed
       ELSE /\ score_range' \in
                  IF touched THEN SliderRanges(df) ELSE {DefaultRange(df)}
            /\ selected_sectors' \in
                  IF touched THEN SUBSET AllSectors(df) ELSE {AllSectors(df)}
            /\ pc' = "filter"
            /\ UNCHANGED crashed
    /\ UNCHANGED <<disk, service, touched, loadCache, detailCache, priceCache,
                   reads, batches, priceLookups, computed, run, notice,
                   base_df, top_tickers, i, detailed_data, outcomes,
                   detailed_df, df, filtered_df, stock, priceOutcome,
                   price_history>>

-----------------------------------------------------------------------------
\* The screener, lines 94-98.

\* >= and <= of floats: a comparison with NaN is False.
Ge(a, b) == a # NaN /\ b # NaN /\ a >= b
Le(a, b) == a # NaN /\ b # NaN /\ a <= b

ScoreHalves(row) == IF row["overall"] = NaN THEN NaN ELSE Halves(row["overall"])

\* Faulty variant: lower end excluded.
KeepsStrict(row, range, sectors) ==
    /\ Ge(ScoreHalves(row), range[1] + 1)
    /\ Le(ScoreHalves(row), range[2])
    /\ row["sector"] \in sectors
Keeps(row, range, sectors) ==
    /\ Ge(ScoreHalves(row), range[1])
    /\ Le(ScoreHalves(row), range[2])
    /\ row["sector"] \in sectors

Screen(d, range, sectors) ==
    DataFrame(d.cols, SelectSeq(d.rows, LAMBDA row : Keeps(row, range, sectors)))

Filter ==
    /\ pc = "filter"
    /\ filtered_df' = Screen(df, score_range, selected_sectors)
    /\ pc' = "deepdive"
    /\ UNCHANGED <<disk, service, touched, loadCache, detailCache, priceCache,
                   reads, batches, priceLookups, computed, run, crashed,
                   notice, base_df, top_tickers, i, detailed_data, outcomes,
                   detailed_df, df, score_range, selected_sectors, stock,
                   priceOutcome, price_history>>

-----------------------------------------------------------------------------
\* get_price_history and the deep dive, lines 132-153.

PriceOutcomes == {"raise", "empty", "series"}

\* stock.history(period="1y") returned, or the handler's None.
\* Faulty variant: an empty result turned into None.
PriceBodyNoneIfEmpty(o) ==
    IF o = "series" THEN DataFrame({"Close"}, <<[Close |-> 10], [Close |-> 11]>>)
    ELSE PyNone
PriceBody(o) ==
    CASE o = "raise" -> PyNone
      [] o = "empty" -> DataFrame({"Close"}, <<>>)
      [] o = "series" -> DataFrame({"Close"}, <<[Close |-> 10], [Close |-> 11]>>)

\* The selectbox: its first option until the user picks another.
NameOptions(d) ==
    IF touched THEN Range(Column(d, "name")) ELSE {d.rows[1]["name"]}

\* filtered_df[filtered_df['name'] == selected].iloc[0]
FirstNamed(d, name) ==
    d.rows[CHOOSE k \in DOMAIN d.rows :
              /\ d.rows[k]["name"] = name
              /\ \A j \in DOMAIN d.rows : d.rows[j]["name"] = name => k <= j]

DeepDive ==
    /\ pc = "deepdive"
    /\ pc' = "done"
    /\ IF Empty(filtered_df)
       THEN /\ notice' = "no_stocks"
            /\ UNCHANGED <<priceCache, priceLookups, computed, stock,
                           priceOutcome, price_history>>
       ELSE \E selected_stock_name \in NameOptions(filtered_df) :
            /\ stock' = FirstNamed(filtered_df, selected_stock_name)["ticker"]
            /\ IF CacheHit(priceCache, stock')
               THEN /\ price_history' = CacheGet(priceCache, stock')
                    /\ priceOutcome' = "cached"
                    /\ UNCHANGED <<priceCache, priceLookups, computed>>
               ELSE \E o \in PriceOutcomes :
                    /\ priceOutcome' = o
                    /\ priceLookups' = Append(priceLookups, stock')
                    /\ price_history' = PriceBody(o)
                    /\ priceCache' = CachePut(priceCache, stock', price_history')
                    /\ computed' = [computed EXCEPT
                                      !.price = Remember(@, stock', price_history')]
            /\ notice' = IF price_history'.none THEN "no_price" ELSE ""
    /\ UNCHANGED <<disk, service, touched, loadCache, detailCache, reads,
                   batches, run, crashed, base_df, top_tickers, i,
                   detailed_data, outcomes, detailed_df, df, score_range,
                   selected_sectors, filtered_df>>

-----------------------------------------------------------------------------
\* Streamlit runs the script again, in the same process, after it has ended
\* (with or without an exception); the cache stores are kept.
Rerun ==
    /\ pc = "done"
    /\ run < MaxRuns
    /\ run' = run + 1
    /\ pc' = "load"
    /\ crashed' = ""
    /\ notice' = ""
    /\ ResetLocals
    /\ UNCHANGED <<disk, service, touched, loadCache, detailCache, priceCache,
                   reads, batches, priceLookups, computed>>

-----------------------------------------------------------------------------
\* Specifications.

FreshProcess ==
    /\ loadCache = {}
    /\ detailCache = {}
    /\ priceCache = {}
    /\ reads = <<>>
    /\ batches = <<>>
    /\ priceLookups = <<>>
    /\ computed = [load |-> {}, detail |-> {}, price |-> {}]
    /\ run = 1
    /\ pc = "load"
    /\ crashed = ""
    /\ notice = ""
    /\ base_df = PyNone
    /\ top_tickers = <<>>
    /\ i = 0
    /\ detailed_data = <<>>
    /\ outcomes = <<>>
    /\ detailed_df = PyNone
    /\ df = PyNone
    /\ score_range = <<NaN, NaN>>
    /\ selected_sectors = {}
    /\ filtered_df = PyNone
    /\ stock = None
    /\ priceOutcome = ""
    /\ price_history = PyNone

\* One run of the script in a fresh process, on any ranking file, against a
\* provider that may fail or answer in part, with the widgets untouched.
Init ==
    /\ disk \in Files
    /\ service = LookupOutcomes
    /\ touched = FALSE
    /\ FreshProcess

Next ==
    \/ LoadData
    \/ FetchBegin
    \/ Lookup
    \/ FetchEnd
    \/ Merge
    \/ Sidebar
    \/ Filter
    \/ DeepDive

Spec == Init /\ [][Next]_vars

\* A session of several runs on the scenario's file, with or without a user
\* who moves the widgets.
InitSession ==
    /\ disk = ScenarioFile
    /\ service = LookupOutcomes
    /\ touched \in BOOLEAN
    /\ FreshProcess

NextSession == Next \/ Rerun

SpecSession == InitSession /\ [][NextSession]_vars

\* The screener as a function of its inputs: every state the script can be
\* in when it reaches the sidebar with a table to show, in a session whose
\* user has moved the widgets.
RECURSIVE Collect(_, _, _)
Collect(tickers, outs, n) ==
    IF n = 0 THEN <<>>
    ELSE AfterLookup(Collect(tickers, outs, n - 1), tickers[n], outs[n])

InitScreener ==
    /\ touched = TRUE
    /\ service = {"fail", "full"}
    /\ \E f \in {g \in Files : "name" \in g.cols} :
       \E outs \in [1..Len(f.rows) -> service] :
          LET base == CoerceScores(f)
              tickers == Column(HeadRows(base, TopN), "ticker")
              detailed == FrameOfRecords(Collect(tickers, outs, Len(tickers)))
              res == Reconcile(HeadRows(base, TopN), detailed)
          IN  /\ res.err = ""
              /\ ~Empty(res.df)
              /\ disk = f
              /\ loadCache = {[key |-> Path, val |-> base]}
              /\ detailCache = {[key |-> tickers, val |-> detailed]}
              /\ priceCache = {}
              /\ reads = <<"ok">>
              /\ batches = <<tickers>>
              /\ priceLookups = <<>>
              /\ computed = [load |-> loadCache, detail |-> detailCache, price |-> {}]
              /\ base_df = base
              /\ top_tickers = tickers
              /\ i = Len(tickers) + 1
              /\ detailed_data = detailed.rows
              /\ outcomes = outs
              /\ detailed_df = detailed
              /\ df = res.df
    /\ run = 1
    /\ pc = "sidebar"
    /\ crashed = ""
    /\ notice = ""
    /\ score_range = <<NaN, NaN>>
    /\ selected_sectors = {}
    /\ filtered_df = PyNone
    /\ stock = None
    /\ priceOutcome = ""
    /\ price_history = PyNone

NextScreener == Sidebar \/ Filter

SpecScreener == InitScreener /\ [][NextScreener]_vars

-----------------------------------------------------------------------------
\* Properties.

FetchReturned == ~detailed_df.none
MergeActed == pc \in {"sidebar", "filter", "deepdive"} \/ (pc = "done" /\ FetchReturned)
FilterActed == ~filtered_df.none
Pos(t) == CHOOSE j \in DOMAIN top_tickers : top_tickers[j] = t
Tickers(d) == Column(d, "ticker")
DiskRow(t) == disk.rows[CHOOSE k \in DOMAIN disk.rows : disk.rows[k]["ticker"] = t]

\* C1: every row of the enriched table has sector, market cap and name
\* present, and belongs to an identifier whose lookup returned all three; an
\* identifier whose lookup failed or returned partial data has no row.
C1_EnrichedRowsComplete ==
    ~df.none =>
        /\ \A k \in DOMAIN df.rows :
              /\ df.rows[k]["sector"] # None
              /\ df.rows[k]["cap"] # NaN
              /\ df.rows[k]["name"] # None
              /\ outcomes[Pos(df.rows[k]["ticker"])] = "full"
        /\ \A j \in DOMAIN outcomes :
              outcomes[j] # "full" => top_tickers[j] \notin Range(Tickers(df))

C1_Witness ==
    /\ pc = "sidebar"
    /\ Len(df.rows) = 1
    /\ \E j \in DOMAIN outcomes : outcomes[j] = "fail"
    /\ \E j \in DOMAIN outcomes : outcomes[j] = "no_cap"

\* C2: once the lookups of a batch are over, some of them having failed, the
\* merge has left a table (possibly empty) and raised nothing, and an empty
\* table is shown as the "nothing to show" notice.
C2_TableWhateverFailed ==
    (/\ MergeActed
     /\ "sector" \notin disk.cols
     /\ \E j \in DOMAIN outcomes : outcomes[j] = "fail")
    => /\ ~df.none
       /\ Empty(df) => (crashed = "" /\ notice = "empty_frame")

\* C3: the batch is completed whatever fails: the records collected so far
\* are those of the identifiers processed so far whose lookup did not fail,
\* in order, and the returned frame holds exactly these for the whole list.
Succeeded ==
    LET idx == SelectSeq([j \in DOMAIN outcomes |-> j], LAMBDA j : outcomes[j] # "fail")
    IN  [k \in DOMAIN idx |-> top_tickers[idx[k]]]

C3_BatchCompletes ==
    /\ pc = "lookup" =>
          /\ Len(outcomes) = i - 1
          /\ [k \in DOMAIN detailed_data |-> detailed_data[k]["ticker"]] = Succeeded
    /\ FetchReturned =>
          /\ Len(outcomes) = Len(top_tickers)
          /\ [k \in DOMAIN detailed_df.rows |-> detailed_df.rows[k]["ticker"]] = Succeeded
          /\ \A k \in DOMAIN detailed_df.rows :
                detailed_df.rows[k]["ticker"] \in Range(top_tickers)
          /\ Len(detailed_df.rows) <= Len(top_tickers)

C3_Witness ==
    /\ FetchReturned
    /\ outcomes = <<"full", "fail", "full">>
    /\ Len(detailed_df.rows) = 2

\* C4 (as written): a price lookup that raises or comes back empty yields
\* None.
C4_EmptyResultIsAbsent ==
    priceOutcome \in {"raise", "empty"} => price_history.none

\* C4 (amended): the price fetch raises nothing; it yields None exactly when
\* the lookup raised, and a lookup that comes back empty is handed on as a
\* zero-length series, which is not None.
C4_AbsentOnlyWhenRaised ==
    priceOutcome \in PriceOutcomes =>
        /\ crashed = ""
        /\ price_history.none <=> priceOutcome = "raise"
        /\ priceOutcome = "empty" => (~price_history.none /\ Empty(price_history))
        /\ priceOutcome = "series" => (~price_history.none /\ ~Empty(price_history))
        /\ notice = "no_price" <=> priceOutcome = "raise"

C4_Witness ==
    /\ priceOutcome = "empty"
    /\ ~price_history.none
    /\ Empty(price_history)
    /\ notice = ""

\* C5: the screener keeps a row iff its overall score is present and within
\* the range, both ends included, and its sector is selected; the rows kept
\* are rows of the input, in the input's order, and screening what was kept
\* keeps all of it.
InRange(row) ==
    /\ row["overall"] # NaN
    /\ score_range[1] # NaN
    /\ score_range[1] <= 2 * row["overall"]
    /\ 2 * row["overall"] <= score_range[2]
    /\ row["sector"] \in selected_sectors

C5_ScreenerExact ==
    FilterActed =>
        /\ \A k \in DOMAIN df.rows :
              InRange(df.rows[k]) <=> df.rows[k] \in Range(filtered_df.rows)
        /\ \A k \in DOMAIN filtered_df.rows : filtered_df.rows[k] \in Range(df.rows)
        /\ \A k \in DOMAIN filtered_df.rows : filtered_df.rows[k]["overall"] # NaN
        /\ Len(filtered_df.rows) = Cardinality({k \in DOMAIN df.rows : InRange(df.rows[k])})
        /\ \A j, k \in DOMAIN filtered_df.rows :
              j < k => Pos(filtered_df.rows[j]["ticker"]) < Pos(filtered_df.rows[k]["ticker"])
        /\ Screen(filtered_df, score_range, selected_sectors) = filtered_df

C5_Witness ==
    /\ FilterActed
    /\ touched
    /\ \E k \in DOMAIN df.rows : df.rows[k]["overall"] = NaN
    /\ \E k \in DOMAIN df.rows :
          /\ df.rows[k]["overall"] # NaN
          /\ score_range[1] <= 2 * df.rows[k]["overall"]
          /\ 2 * df.rows[k]["overall"] <= score_range[2]
          /\ df.rows[k]["sector"] \notin selected_sectors
    /\ \E k \in DOMAIN filtered_df.rows :
          2 * filtered_df.rows[k]["overall"] = score_range[1]
    /\ score_range[1] < score_range[2]

\* C6: in every row of the enriched table the name and the sector are the
\* provider's, never the ranking file's, and the overall score is the
\* ranking file's (coerced).
C6_Provenance ==
    ~df.none =>
        \A k \in DOMAIN df.rows :
            LET t == df.rows[k]["ticker"]
            IN  /\ df.rows[k]["name"] = LiveName(t)
                /\ df.rows[k]["name"] # StaleName(t)
                /\ df.rows[k]["sector"] = LiveSector(t)
                /\ df.rows[k]["sector"] # StaleSector
                /\ "overall" \in df.cols =>
                      /\ DiskRow(t)["overall"].num =>
                            df.rows[k]["overall"] = DiskRow(t)["overall"].v
                      /\ ~DiskRow(t)["overall"].num => df.rows[k]["overall"] = NaN

C6_Witness ==
    /\ pc = "sidebar"
    /\ "name" \in disk.cols
    /\ "overall" \in df.cols
    /\ Len(df.rows) = 2
    /\ \E k \in DOMAIN df.rows : df.rows[k]["overall"] = NaN

\* C7: the default criteria are the median and the maximum of the overall
\* scores of the enriched rows and all their sectors; in the scenario
\* (A, B, C with 5, 8, 2; C's lookup fails) the table is {A, B}, the range
\* is [6.5, 8] and the default criteria keep B alone.
ScoresOf(d) == {k \in DOMAIN d.rows : d.rows[k]["overall"] # NaN}

C7_DefaultCriteria ==
    (FilterActed /\ ~touched /\ ScoresOf(df) # {}) =>
        /\ 2 * Cardinality({k \in ScoresOf(df) : 2 * df.rows[k]["overall"] < score_range[1]})
              <= Cardinality(ScoresOf(df))
        /\ 2 * Cardinality({k \in ScoresOf(df) : 2 * df.rows[k]["overall"] > score_range[1]})
              <= Cardinality(ScoresOf(df))
        /\ \E k \in ScoresOf(df) : 2 * df.rows[k]["overall"] = score_range[2]
        /\ \A k \in ScoresOf(df) : 2 * df.rows[k]["overall"] <= score_range[2]
        /\ selected_sectors = {df.rows[k]["sector"] : k \in DOMAIN df.rows}
        /\ (disk = ScenarioFile /\ outcomes = <<"full", "full", "fail">>) =>
              /\ Tickers(df) = <<"A", "B">>
              /\ Column(df, "sector") = <<"Tech", "Finance">>
              /\ Column(df, "cap") = <<100, 200>>
              /\ score_range = <<13, 16>>
              /\ Tickers(filtered_df) = <<"B">>

C7_Witness ==
    /\ pc = "deepdive"
    /\ disk = ScenarioFile
    /\ outcomes = <<"full", "full", "fail">>
    /\ score_range = <<13, 16>>
    /\ Tickers(filtered_df) = <<"B">>

\* C8 (as written): each collaborator is invoked at most once per distinct
\* argument value.
NoRepeat(s) == \A j, k \in DOMAIN s : j # k => s[j] # s[k]

C8_OncePerArgument ==
    /\ Len(reads) <= 1
    /\ NoRepeat(batches)
    /\ NoRepeat(priceLookups)

\* C8 (amended): a call whose arguments equal those of an earlier call that
\* returned gives the value that call computed and invokes no collaborator;
\* a load that raised stored nothing, and the file is read again.
C8_OncePerReturnedArgument ==
    /\ \A j \in DOMAIN reads : j < Len(reads) => reads[j] = "ParserError"
    /\ NoRepeat(batches)
    /\ NoRepeat(priceLookups)
    /\ (pc # "load" /\ crashed # "ParserError") =>
          /\ CacheHit(computed.load, Path)
          /\ base_df = CacheGet(computed.load, Path)
    /\ FetchReturned =>
          /\ CacheHit(computed.detail, top_tickers)
          /\ detailed_df = CacheGet(computed.detail, top_tickers)
    /\ priceOutcome # "" =>
          /\ CacheHit(computed.price, stock)
          /\ price_history = CacheGet(computed.price, stock)

C8_Witness ==
    /\ run = 2
    /\ pc = "done"
    /\ priceOutcome = "cached"
    /\ reads = <<"ok">>
    /\ Len(batches) = 1
    /\ Len(priceLookups) = 1

\* C9, the part about a missing file: the load reports it, returns nothing
\* and raises nothing, and the run ends there with no lookup, no merge and
\* no filtering.
NotFoundIsTerminal ==
    /\ (reads # <<>> /\ reads[Len(reads)] = "FileNotFoundError") =>
          (pc = "done" /\ notice = "not_found")
    /\ notice = "not_found" =>
          /\ pc = "done"
          /\ crashed = ""
          /\ base_df.none
          /\ batches = <<>>
          /\ priceLookups = <<>>
          /\ detailed_df.none
          /\ df.none
          /\ filtered_df.none

\* C9 (as written): and nothing else makes the load fail.
C9_OnlyNotFoundFails ==
    /\ NotFoundIsTerminal
    /\ crashed # "ParserError"

\* C9 (amended): and a score cell that is not a number does not make the
\* load fail: a read that succeeded returns the table, with that cell
\* missing.
C9_NotFoundTerminalScoresCoerced ==
    /\ NotFoundIsTerminal
    /\ (reads # <<>> /\ reads[Len(reads)] = "ok") =>
          /\ crashed # "ParserError"
          /\ ~base_df.none
          /\ Tickers(base_df) = Tickers(disk)
          /\ \A k \in DOMAIN base_df.rows :
                "overall" \in disk.cols =>
                    base_df.rows[k]["overall"] =
                        IF disk.rows[k]["overall"].num
                        THEN disk.rows[k]["overall"].v ELSE NaN

C9_Witness ==
    /\ pc = "done"
    /\ notice = "not_found"
    /\ reads = <<"FileNotFoundError">>
    /\ Len(disk.rows) > 0

\* C10 (as written): with the default criteria a table that is not empty is
\* never screened down to nothing, and the run does not end on the "no stocks
\* to display" notice.
Presented == pc \in {"deepdive", "done"} /\ ~touched /\ ~df.none /\ ~Empty(df)

C10_DefaultsKeepSomething ==
    /\ (FilterActed /\ ~touched) => ~Empty(filtered_df)
    /\ ~touched => notice # "no_stocks"

\* C10 (amended): with the default criteria a table with at least one
\* overall score present is never screened down to nothing: the rows with
\* the highest score are kept.
HasScore(d) == "overall" \in d.cols /\ ScoresOf(d) # {}

C10_DefaultsKeepTheMaximum ==
    /\ (Presented /\ HasScore(df)) =>
          /\ FilterActed
          /\ ~Empty(filtered_df)
          /\ notice # "no_stocks"
          /\ \A k \in ScoresOf(df) :
                (\A j \in ScoresOf(df) : df.rows[j]["overall"] <= df.rows[k]["overall"])
                    => df.rows[k] \in Range(filtered_df.rows)
    /\ (~touched /\ notice = "no_stocks") => ~HasScore(df)

C10_Witness ==
    /\ pc = "deepdive"
    /\ ~touched
    /\ Len(df.rows) = 3
    /\ Len(filtered_df.rows) = 1
    /\ \E k \in DOMAIN df.rows : df.rows[k]["overall"] = NaN

====
